---- MODULE Spec2Model ----
(***************************************************************************)
(* The stream proxy of server.ts: GET /api/stream.                         *)
(*                                                                         *)
(* Strings the handler computes on (URLs, manifest text, content types)    *)
(* are sequences of one-character strings, so that toLowerCase, split,     *)
(* trim, startsWith, endsWith, lastIndexOf, includes, new URL(...).href    *)
(* and encodeURIComponent are computed as the code computes them.  Values  *)
(* the handler only passes along (status codes, header values, chunks)     *)
(* are plain values.                                                       *)
(***************************************************************************)
EXTENDS Integers, Sequences, FiniteSets, TLC

(***************************************************************************)
(* Bounds of the model.                                                    *)
(***************************************************************************)
\* the longest manifest body, in lines
MaxLines == 2
\* the longest upstream body, in chunks
MaxChunks == 2

(***************************************************************************)
(* String primitives of the JavaScript runtime.                            *)
(***************************************************************************)
UpperLetters ==
  <<"A","B","C","D","E","F","G","H","I","J","K","L","M",
    "N","O","P","Q","R","S","T","U","V","W","X","Y","Z">>

LowerLetters ==
  <<"a","b","c","d","e","f","g","h","i","j","k","l","m",
    "n","o","p","q","r","s","t","u","v","w","x","y","z">>

Digits == {"0","1","2","3","4","5","6","7","8","9"}

Range(s) == {s[i] : i \in DOMAIN s}

Letters == Range(UpperLetters) \cup Range(LowerLetters)

\* String.prototype.toLowerCase, one character
LowerChar(c) ==
  IF \E i \in DOMAIN UpperLetters : UpperLetters[i] = c
  THEN LowerLetters[CHOOSE i \in DOMAIN UpperLetters : UpperLetters[i] = c]
  ELSE c

\* String.prototype.toLowerCase
toLowerCase(s) == [i \in DOMAIN s |-> LowerChar(s[i])]

\* String.prototype.startsWith
startsWith(s, p) == Len(s) >= Len(p) /\ SubSeq(s, 1, Len(p)) = p

\* String.prototype.endsWith
endsWith(s, p) == Len(s) >= Len(p) /\ SubSeq(s, Len(s) - Len(p) + 1, Len(s)) = p

\* String.prototype.includes
includes(s, p) ==
  \E i \in 1..(Len(s) - Len(p) + 1) : SubSeq(s, i, i + Len(p) - 1) = p

\* String.prototype.indexOf for one character, 1-based; 0 when absent
indexOf(s, c) ==
  IF \E i \in DOMAIN s : s[i] = c
  THEN CHOOSE i \in DOMAIN s : s[i] = c /\ \A j \in 1..(i - 1) : s[j] # c
  ELSE 0

\* String.prototype.lastIndexOf for one character, 1-based; 0 when absent
lastIndexOf(s, c) ==
  IF \E i \in DOMAIN s : s[i] = c
  THEN CHOOSE i \in DOMAIN s : s[i] = c /\ \A j \in (i + 1)..Len(s) : s[j] # c
  ELSE 0

\* the characters String.prototype.trim removes
WhiteSpace == {" ", "\t", "\r", "\n"}

\* String.prototype.trim
trim(s) ==
  IF \A i \in DOMAIN s : s[i] \in WhiteSpace
  THEN << >>
  ELSE LET first == CHOOSE i \in DOMAIN s :
                      s[i] \notin WhiteSpace /\ \A j \in 1..(i - 1) : s[j] \in WhiteSpace
           last  == CHOOSE i \in DOMAIN s :
                      s[i] \notin WhiteSpace /\ \A j \in (i + 1)..Len(s) : s[j] \in WhiteSpace
       IN  SubSeq(s, first, last)

RECURSIVE split(_, _)
\* String.prototype.split on a one-character separator: never empty
split(s, sep) ==
  LET i == indexOf(s, sep)
  IN  IF i = 0 THEN << s >>
      ELSE << SubSeq(s, 1, i - 1) >> \o split(SubSeq(s, i + 1, Len(s)), sep)

RECURSIVE join(_, _)
\* Array.prototype.join
join(parts, sep) ==
  IF parts = << >> THEN << >>
  ELSE IF Len(parts) = 1 THEN parts[1]
  ELSE parts[1] \o sep \o join(Tail(parts), sep)

(***************************************************************************)
(* encodeURIComponent: the unreserved characters stay, every other one     *)
(* becomes %HH of its UTF-8 byte.                                          *)
(***************************************************************************)
Unreserved ==
  Letters \cup Digits \cup {"-", "_", ".", "!", "~", "*", "'", "(", ")"}

PercentCode(c) ==
  CASE c = ":"  -> <<"%","3","A">>
    [] c = "/"  -> <<"%","2","F">>
    [] c = "?"  -> <<"%","3","F">>
    [] c = "="  -> <<"%","3","D">>
    [] c = "#"  -> <<"%","2","3">>
    [] c = "&"  -> <<"%","2","6">>
    [] c = "%"  -> <<"%","2","5">>
    [] c = "+"  -> <<"%","2","B">>
    [] c = " "  -> <<"%","2","0">>
    [] c = "\t" -> <<"%","0","9">>
    [] c = "\r" -> <<"%","0","D">>
    [] c = "\n" -> <<"%","0","A">>
    [] c = "["  -> <<"%","5","B">>
    [] c = "]"  -> <<"%","5","D">>

RECURSIVE encodeURIComponent(_)
encodeURIComponent(s) ==
  IF s = << >> THEN << >>
  ELSE (IF s[1] \in Unreserved THEN << s[1] >> ELSE PercentCode(s[1]))
       \o encodeURIComponent(Tail(s))

(***************************************************************************)
(* new URL(input, base).href for http(s) bases: the WHATWG URL parser on   *)
(* the inputs a playlist line gives it (scheme, //authority, /rooted path, *)
(* relative path with dot segments, query, fragment).  Ports, credentials, *)
(* backslashes and characters the serializer would escape inside a path    *)
(* are outside the model's alphabet.                                       *)
(***************************************************************************)
InvalidURL == [ok |-> FALSE]

SchemeChars == Letters \cup Digits \cup {"+", "-", "."}

\* the code points a host may not contain
ForbiddenHost == {" ", "\t", "\r", "\n", "#", "%", "<", ">", "[", "]", "^", "|", "\\", "@"}

\* the position of the ':' that ends a scheme, 0 when the input has no scheme
SchemeEnd(s) ==
  LET i == indexOf(s, ":")
  IN  IF i > 1 /\ s[1] \in Letters /\ \A j \in 1..(i - 1) : s[j] \in SchemeChars
      THEN i ELSE 0

\* the first position of one of the characters, Len(s) + 1 when there is none
FirstOf(s, chars) ==
  IF \E i \in DOMAIN s : s[i] \in chars
  THEN CHOOSE i \in DOMAIN s : s[i] \in chars /\ \A j \in 1..(i - 1) : s[j] \notin chars
  ELSE Len(s) + 1

\* the leading '/' characters skipped before an authority
RECURSIVE SkipSlashes(_)
SkipSlashes(s) == IF s # << >> /\ s[1] = "/" THEN SkipSlashes(Tail(s)) ELSE s

Pop(stack) == IF stack = << >> THEN << >> ELSE SubSeq(stack, 1, Len(stack) - 1)

RECURSIVE DotSegments(_, _, _)
\* the path state of the parser: "." is dropped, ".." removes the last segment
DotSegments(segs, i, acc) ==
  IF i > Len(segs) THEN acc
  ELSE LET seg  == segs[i]
           last == i = Len(segs)
       IN  IF seg = <<".",".">>
           THEN DotSegments(segs, i + 1, IF last THEN Append(Pop(acc), << >>) ELSE Pop(acc))
           ELSE IF seg = <<".">>
           THEN DotSegments(segs, i + 1, IF last THEN Append(acc, << >>) ELSE acc)
           ELSE DotSegments(segs, i + 1, Append(acc, seg))

\* a path that starts with '/', with its dot segments removed
NormalizePath(p) ==
  IF p = << >> THEN <<"/">>
  ELSE <<"/">> \o join(DotSegments(split(Tail(p), "/"), 1, << >>), <<"/">>)

\* path, query and fragment of what follows the authority
PathOf(s)  == SubSeq(s, 1, FirstOf(s, {"?", "#"}) - 1)

QueryOf(s) ==
  LET q == FirstOf(s, {"?", "#"})
  IN  IF q <= Len(s) /\ s[q] = "?"
      THEN SubSeq(s, q, FirstOf(s, {"#"}) - 1) ELSE << >>

FragmentOf(s) == SubSeq(s, FirstOf(s, {"#"}), Len(s))

\* //authority/path?query#fragment of a special scheme, leading slashes skipped
ParseAuthority(scheme, s) ==
  LET rest == SkipSlashes(s)
      h    == FirstOf(rest, {"/", "?", "#"})
      host == SubSeq(rest, 1, h - 1)
      tail == SubSeq(rest, h, Len(rest))
  IN  IF host = << >> \/ \E i \in DOMAIN host : host[i] \in ForbiddenHost
      THEN InvalidURL
      ELSE [ok |-> TRUE, scheme |-> scheme, host |-> toLowerCase(host),
            path |-> NormalizePath(PathOf(tail)),
            query |-> QueryOf(tail), fragment |-> FragmentOf(tail)]

IsSpecial(scheme) == scheme \in {<<"h","t","t","p">>, <<"h","t","t","p","s">>}

\* the directory of a path: the path up to and including its last '/'
Dirname(p) == SubSeq(p, 1, lastIndexOf(p, "/"))

\* a reference without a scheme, against a parsed base
ParseRelative(s, b) ==
  IF ~b.ok THEN InvalidURL
  ELSE IF startsWith(s, <<"/","/">>) THEN ParseAuthority(b.scheme, s)
  ELSE IF s = << >> THEN [b EXCEPT !.fragment = << >>]
  ELSE IF s[1] = "/"
  THEN [b EXCEPT !.path = NormalizePath(PathOf(s)),
                 !.query = QueryOf(s), !.fragment = FragmentOf(s)]
  ELSE IF s[1] = "?"
  THEN [b EXCEPT !.query = QueryOf(s), !.fragment = FragmentOf(s)]
  ELSE IF s[1] = "#"
  THEN [b EXCEPT !.fragment = s]
  ELSE [b EXCEPT !.path = NormalizePath(Dirname(b.path) \o PathOf(s)),
                 !.query = QueryOf(s), !.fragment = FragmentOf(s)]

\* an absolute http(s) URL; any other string is no base
ParseBase(s) ==
  LET e == SchemeEnd(s)
  IN  IF e = 0 THEN InvalidURL
      ELSE LET scheme == toLowerCase(SubSeq(s, 1, e - 1))
           IN  IF IsSpecial(scheme)
               THEN ParseAuthority(scheme, SubSeq(s, e + 1, Len(s)))
               ELSE InvalidURL

\* the parser's result for input against base
ParseURL(input, base) ==
  LET e == SchemeEnd(input)
      b == ParseBase(base)
  IN  IF e = 0 THEN ParseRelative(input, b)
      ELSE LET scheme == toLowerCase(SubSeq(input, 1, e - 1))
               rest   == SubSeq(input, e + 1, Len(input))
           IN  IF ~IsSpecial(scheme)
               THEN [ok |-> TRUE, scheme |-> scheme, host |-> << >>,
                     path |-> rest, query |-> << >>, fragment |-> << >>]
               ELSE IF b.ok /\ b.scheme = scheme /\ ~startsWith(rest, <<"/">>)
               THEN ParseRelative(rest, b)
               ELSE ParseAuthority(scheme, rest)

\* URL.prototype.href
Href(u) ==
  IF IsSpecial(u.scheme)
  THEN u.scheme \o <<":","/","/">> \o u.host \o u.path \o u.query \o u.fragment
  ELSE u.scheme \o <<":">> \o u.path

(***************************************************************************)
(* The inputs of a request: req.query.url, the Range header, and what the  *)
(* upstream answers.                                                       *)
(***************************************************************************)
\* req.query.url is undefined
NoUrl == <<"undefined">>

\* http://h/a/i.m3u8
UrlExt == <<"h","t","t","p",":","/","/","h","/","a","/","i",".","m","3","u","8">>

\* http://h/a/V.M3U8?t=1
UrlExtUpperQuery ==
  <<"h","t","t","p",":","/","/","h","/","a","/","V",".","M","3","U","8","?","t","=","1">>

\* http://h/g?f=.m3u8
UrlQueryOnlyExt ==
  <<"h","t","t","p",":","/","/","h","/","g","?","f","=",".","m","3","u","8">>

\* http://h/a/s.ts
UrlSegment == <<"h","t","t","p",":","/","/","h","/","a","/","s",".","t","s">>

\* https://h/l/x
UrlNoExt == <<"h","t","t","p","s",":","/","/","h","/","l","/","x">>

\* foo: a string that is no absolute URL
UrlMalformed == <<"f","o","o">>

\* req.query.url is an array: ?url=a&url=b
UrlArray == <<"array">>

Urls ==
  {NoUrl, UrlExt, UrlExtUpperQuery, UrlQueryOnlyExt, UrlSegment, UrlNoExt,
   UrlMalformed, UrlArray}

\* req.headers.range is undefined
NoRange == "undefined"

RangeHeaders == {NoRange, "bytes=1000-1999", ""}

\* the requests: a Range header comes with the segment URL, the one URL
\* whose bytes are relayed in parts
Requests ==
  {q \in Urls \X RangeHeaders : q[2] # NoRange => q[1] = UrlSegment}

\* the lines a playlist is made of
LineBlank == << >>

LineCR == <<"\r">>

LineComment == <<"#","E">>

LineRel == <<"s",".","t","s">>

LineRelCR == <<"s",".","t","s","\r">>

LineAbs == <<"h","t","t","p",":","/","/","c","/","s",".","t","s">>

LineAbsQueryCR == <<"h","t","t","p","s",":","/","/","c","/","s","?","k","\r">>

LineHttpPrefixRel == <<"h","t","t","p","x","/","s",".","t","s">>

LineRooted == <<"/","r","/","s",".","t","s">>

LineDotDot == <<".",".","/","s",".","t","s">>

LineBadHost == <<"/","/">>

LineJson == <<"[","]">>

Lines ==
  {LineBlank, LineCR, LineComment, LineRel, LineRelCR, LineAbs, LineAbsQueryCR,
   LineHttpPrefixRel, LineRooted, LineDotDot, LineBadHost, LineJson}

\* the playlists of at most MaxLines lines, as the text upstream sends
ManifestBodies ==
  UNION {{join(ls, <<"\n">>) : ls \in [1..n -> Lines]} : n \in 1..MaxLines}

\* the content types a HEAD probe reports; << >> when the header is absent
CtManifest == <<"a","u","d","i","o","/","m","p","e","g","u","r","l">>

CtManifestUpper == <<"A","u","d","i","o","/","M","P","E","G","U","R","L">>

CtM3u8 == <<"a","/","x","-","m","3","u","8">>

CtVideo == <<"v","i","d","e","o","/","m","p","2","t">>

ProbeContentTypes == {CtManifest, CtManifestUpper, CtM3u8, CtVideo, << >>}

\* a header that is not set
Absent == "undefined"

\* the header list of lines 222-228
essentialHeaders ==
  <<"content-type", "content-length", "content-range", "accept-ranges", "cache-control">>

CorsHeaders ==
  {"access-control-allow-origin", "access-control-allow-methods",
   "access-control-allow-headers", "access-control-expose-headers"}

UpstreamHeaderNames ==
  Range(essentialHeaders) \cup {"server", "set-cookie", "access-control-allow-origin"}

ResponseHeaderNames == UpstreamHeaderNames \cup CorsHeaders

NoHeaders == [h \in ResponseHeaderNames |-> Absent]

\* the header sets an upstream answers a streamed GET with
UpstreamPlain ==
  [h \in UpstreamHeaderNames |->
     CASE h = "content-type"   -> "video/mp2t"
       [] h = "content-length" -> "5000"
       [] h = "accept-ranges"  -> ""
       [] h = "server"         -> "nginx"
       [] OTHER                -> Absent]

UpstreamPartial ==
  [h \in UpstreamHeaderNames |->
     CASE h = "content-type"   -> "video/mp2t"
       [] h = "content-length" -> "1000"
       [] h = "content-range"  -> "bytes 1000-1999/5000"
       [] h = "accept-ranges"  -> "bytes"
       [] h = "cache-control"  -> "no-cache"
       [] h = "set-cookie"     -> "sid=1"
       [] h = "access-control-allow-origin" -> "http://h"
       [] OTHER                -> Absent]

UpstreamBare == [h \in UpstreamHeaderNames |-> Absent]

UpstreamHeaderSets == {UpstreamPlain, UpstreamPartial, UpstreamBare}

\* the statuses an upstream answers with, after its redirects were followed
UpstreamStatuses == {200, 206, 304, 404, 500}

\* the statuses an upstream answers a manifest GET with
ManifestStatuses == {200, 404, 503}

\* an axios error: error.response is set when the upstream answered
NetworkError ==
  [thrown |-> TRUE, hasResponse |-> FALSE, status |-> 0, message |-> "connect ECONNREFUSED"]

HttpError(st) ==
  [thrown |-> TRUE, hasResponse |-> TRUE, status |-> st,
   message |-> "Request failed with status code"]

\* the TypeError of content.split when response.data is not a string
SplitTypeError ==
  [thrown |-> TRUE, hasResponse |-> FALSE, status |-> 0,
   message |-> "content.split is not a function"]

\* the TypeError of targetUrl.toLowerCase when req.query.url is not a string
LowerCaseTypeError ==
  [thrown |-> TRUE, hasResponse |-> FALSE, status |-> 0,
   message |-> "targetUrl.toLowerCase is not a function"]

NoError == [thrown |-> FALSE]

\* headCheck before the probe, and headCheck after .catch(() => null)
NoHeadCheck == <<"undefined">>

NullHeadCheck == <<"null">>

\* response.data before any fetch, and response.data that is not a string
NoContent == <<"undefined">>

JsonValue == <<"object">>

(***************************************************************************)
(* The state of one request to GET /api/stream.                            *)
(***************************************************************************)
VARIABLES
  pc,          \* where the handler is: idle, manifestFetch, probe,
               \* manifestFetchDetected, streamFetch, piping, done
  targetUrl,   \* req.query.url
  rangeHeader, \* req.headers.range
  content,     \* response.data of the manifest fetch
  res,         \* the response: status, headers, body, headersSent, ended
  upstream,    \* the streamed upstream response: status, headers, the state of
               \* response.data, the chunks to come, the Range sent, destroy() calls
  written,     \* the chunks pipe() wrote to the response
  client,      \* the connection: closed, and where the handler was when it closed
  closeListener, \* req.on('close') is registered
  calls,       \* the upstream calls issued: probe, manifest, stream
  caught,      \* the error the catch block received
  via,         \* what classified the request: extension, probe, none
  outcome,     \* how the request ended
  uncaught,    \* an 'error' event nobody listens to was emitted, or the
               \* handler's promise was rejected with nobody to handle it
  headCheck    \* the content type of the HEAD probe's answer, or null

vars ==
  <<pc, targetUrl, rangeHeader, content, res, upstream, written, client,
    closeListener, calls, caught, via, outcome, uncaught, headCheck>>

VARIABLES
  other,         \* the request that is not running: a second /api/stream request
  active,        \* which of the two requests the variables above belong to
  now,           \* Date.now() of the server, in minutes
  sessions,      \* the sessions map
  sessionsFile,  \* sessions.json
  tab,           \* the browser tab of the client: closed or open
  auth,          \* the auth state of App
  stored,        \* localStorage xtream_auth
  beat,          \* the heartbeat of the client: minutes since sendHeartbeat ran
                 \* last, whether it is due now, whether it was on time since login
  event,         \* the request or timer handled last, with its answer
  adminEnv,      \* process.env.ADMIN_PASSWORD
  servers,       \* the servers list
  nextServerId,
  appConfig

\* the state of the session, server and config routes
svars ==
  <<now, sessions, sessionsFile, tab, auth, stored, beat, event, adminEnv,
    servers, nextServerId, appConfig>>

\* what a step of the running /api/stream request leaves alone
aside == <<other, active, svars>>

allvars == <<vars, aside>>

NoBody == [kind |-> "none"]

TextBody(t) == [kind |-> "text", text |-> t]

ErrorBody(m) == [kind |-> "error", message |-> m]

StreamBody == [kind |-> "stream"]

\* a fresh express response: status 200 until res.status is called
FreshResponse ==
  [status |-> 200, headers |-> NoHeaders, body |-> NoBody,
   headersSent |-> FALSE, ended |-> FALSE]

NoUpstream ==
  [status |-> 0, headers |-> UpstreamBare, stream |-> "none", pending |-> << >>,
   total |-> 0, paused |-> FALSE, range |-> NoRange, destroyCalls |-> 0]

\* the locals of a handler invocation that has just been called
FreshRequest ==
  [pc |-> "idle", targetUrl |-> NoUrl, rangeHeader |-> NoRange, content |-> NoContent,
   res |-> FreshResponse, upstream |-> NoUpstream, written |-> << >>,
   client |-> [closed |-> FALSE, closedAt |-> "none"], closeListener |-> FALSE,
   calls |-> [probe |-> 0, manifest |-> 0, stream |-> 0], caught |-> NoError,
   via |-> "none", outcome |-> "none", uncaught |-> FALSE, headCheck |-> NoHeadCheck]

\* no header, no environment variable, no stored auth
NoAuth == "null"

NoEnv == "undefined"

\* the default of loadConfig
DefaultConfig == [appName |-> "WebTV"]

\* the process has started with empty data files and no tab is open
AsideInit ==
  /\ other = FreshRequest
  /\ active = 1
  /\ now = 1
  /\ sessions = << >>
  /\ sessionsFile = << >>
  /\ tab = "closed"
  /\ auth = NoAuth
  /\ stored = NoAuth
  /\ beat = [age |-> 0, due |-> FALSE, kept |-> FALSE]
  /\ event = [kind |-> "none"]
  /\ adminEnv = NoEnv
  /\ servers = << >>
  /\ nextServerId = 1
  /\ appConfig = DefaultConfig

Init ==
  /\ pc = "idle"
  /\ targetUrl = NoUrl
  /\ rangeHeader = NoRange
  /\ content = NoContent
  /\ res = FreshResponse
  /\ upstream = NoUpstream
  /\ written = << >>
  /\ client = [closed |-> FALSE, closedAt |-> "none"]
  /\ closeListener = FALSE
  /\ calls = [probe |-> 0, manifest |-> 0, stream |-> 0]
  /\ caught = NoError
  /\ via = "none"
  /\ outcome = "none"
  /\ uncaught = FALSE
  /\ headCheck = NoHeadCheck
  /\ AsideInit

(***************************************************************************)
(* The pure steps of the handler.                                          *)
(***************************************************************************)
DotM3U8 == <<".","m","3","u","8">>

StrHttp == <<"h","t","t","p">>

StrMpegurl == <<"m","p","e","g","u","r","l">>

StrM3u8 == <<"m","3","u","8">>

\* /api/stream?url=
ProxyPrefix == <<"/","a","p","i","/","s","t","r","e","a","m","?","u","r","l","=">>

isM3U8_CaseSensitive(url) == endsWith(split(url, "?")[1], DotM3U8)

\* lines 103-104
isM3U8(url) == endsWith(split(toLowerCase(url), "?")[1], DotM3U8)

\* lines 121 and 176
baseUrl(url) == SubSeq(url, 1, lastIndexOf(url, "/"))

RewriteLineExt_TrimPassThrough(line, base) ==
  LET trimmed == trim(line)
  IN  IF trimmed # << >> /\ ~startsWith(trimmed, <<"#">>)
      THEN IF ~startsWith(trimmed, StrHttp)
           THEN LET u == ParseURL(trimmed, base)
                IN  IF u.ok THEN ProxyPrefix \o encodeURIComponent(Href(u)) ELSE line
           ELSE ProxyPrefix \o encodeURIComponent(trimmed)
      ELSE trimmed

RewriteLineExt_NoEncode(line, base) ==
  LET trimmed == trim(line)
  IN  IF trimmed # << >> /\ ~startsWith(trimmed, <<"#">>)
      THEN IF ~startsWith(trimmed, StrHttp)
           THEN LET u == ParseURL(trimmed, base)
                IN  IF u.ok THEN ProxyPrefix \o Href(u) ELSE line
           ELSE ProxyPrefix \o trimmed
      ELSE line

RewriteLineExt_EncodeUnresolved(line, base) ==
  LET trimmed == trim(line)
  IN  IF trimmed # << >> /\ ~startsWith(trimmed, <<"#">>)
      THEN IF ~startsWith(trimmed, StrHttp)
           THEN LET u == ParseURL(trimmed, base)
                IN  ProxyPrefix \o encodeURIComponent(IF u.ok THEN Href(u) ELSE trimmed)
           ELSE ProxyPrefix \o encodeURIComponent(trimmed)
      ELSE line

\* the callback of lines.map, lines 124-138
RewriteLineExt(line, base) ==
  LET trimmed == trim(line)
  IN  IF trimmed # << >> /\ ~startsWith(trimmed, <<"#">>)
      THEN IF ~startsWith(trimmed, StrHttp)
           THEN LET u == ParseURL(trimmed, base)
                IN  IF u.ok THEN ProxyPrefix \o encodeURIComponent(Href(u)) ELSE line
           ELSE ProxyPrefix \o encodeURIComponent(trimmed)
      ELSE line

rewrittenLinesExt_Reversed(body, url) ==
  LET lines == split(body, "\n")
      n == Len(lines)
  IN  join([i \in DOMAIN lines |-> RewriteLineExt(lines[n + 1 - i], baseUrl(url))], <<"\n">>)

\* lines 120-138 and the join of line 142
rewrittenLinesExt(body, url) ==
  LET lines == split(body, "\n")
  IN  join([i \in DOMAIN lines |-> RewriteLineExt(lines[i], baseUrl(url))], <<"\n">>)

RewriteLineDetected_PassThrough(line, base) == line

\* the callback of lines.map, lines 179-193
RewriteLineDetected(line, base) ==
  LET trimmed == trim(line)
  IN  IF trimmed # << >> /\ ~startsWith(trimmed, <<"#">>)
      THEN IF ~startsWith(trimmed, StrHttp)
           THEN LET u == ParseURL(trimmed, base)
                IN  IF u.ok THEN ProxyPrefix \o encodeURIComponent(Href(u)) ELSE line
           ELSE ProxyPrefix \o encodeURIComponent(trimmed)
      ELSE line

\* lines 175-193 and the join of line 197
rewrittenLinesDetected(body, url) ==
  LET lines == split(body, "\n")
  IN  join([i \in DOMAIN lines |-> RewriteLineDetected(lines[i], baseUrl(url))], <<"\n">>)

\* lines 140-142
ManifestResponseExt(r, text) ==
  [r EXCEPT !.headers = [@ EXCEPT !["content-type"] = "application/vnd.apple.mpegurl",
                                  !["access-control-allow-origin"] = "*"],
            !.body = TextBody(text), !.headersSent = TRUE, !.ended = TRUE]

\* lines 195-197
ManifestResponseDetected(r, text) ==
  [r EXCEPT !.headers = [@ EXCEPT !["content-type"] = "application/vnd.apple.mpegurl",
                                  !["access-control-allow-origin"] = "*"],
            !.body = TextBody(text), !.headersSent = TRUE, !.ended = TRUE]

\* the texts JSON.parse accepts, among those the model's alphabet spells
IsJSONText(s) ==
  LET t == trim(s)
  IN  \/ t \in {<<"[","]">>, <<"{","}">>, <<"n","u","l","l">>,
               <<"t","r","u","e">>, <<"f","a","l","s","e">>}
      \/ /\ t # << >>
         /\ \A i \in DOMAIN t : t[i] \in Digits
         /\ Len(t) > 1 => t[1] # "0"

\* response.data of axios.get without responseType: the default
\* transformResponse hands back JSON.parse(body) whenever the body parses
transformResponse(body) ==
  IF body # << >> /\ IsJSONText(body) THEN JsonValue ELSE body

\* axios without validateStatus: a status outside 2xx rejects
validateStatusDefault(st) == st >= 200 /\ st < 300

validateStatusStream_Default(st) == st >= 200 /\ st < 300

\* validateStatus: () => true, line 213
validateStatusStream(st) == TRUE

\* lines 158-159
detectedM3U8(contentType) ==
  includes(contentType, StrMpegurl) \/ includes(contentType, StrM3u8)

\* a header value that passes if (response.headers[h])
Truthy(v) == v # Absent /\ v # ""

CorsValue(h) ==
  CASE h = "access-control-allow-origin"   -> "*"
    [] h = "access-control-allow-methods"  -> "GET, OPTIONS"
    [] h = "access-control-allow-headers"  -> "*"
    [] h = "access-control-expose-headers" -> "*"

RelayResponse_CopyAll(r, st, hs) ==
  [r EXCEPT !.status = st,
            !.headers = [h \in ResponseHeaderNames |->
                           IF h \in CorsHeaders THEN CorsValue(h)
                           ELSE IF h \in UpstreamHeaderNames /\ Truthy(hs[h]) THEN hs[h]
                           ELSE r.headers[h]],
            !.body = StreamBody]

RelayResponse_UpstreamCorsWins(r, st, hs) ==
  [r EXCEPT !.status = st,
            !.headers = [h \in ResponseHeaderNames |->
                           IF h \in UpstreamHeaderNames /\ Truthy(hs[h])
                           THEN IF h \in Range(essentialHeaders) \union CorsHeaders
                                THEN hs[h] ELSE r.headers[h]
                           ELSE IF h \in CorsHeaders THEN CorsValue(h)
                           ELSE r.headers[h]],
            !.body = StreamBody]

\* lines 219-240: the status, the essential headers, the CORS headers
RelayResponse(r, st, hs) ==
  [r EXCEPT !.status = st,
            !.headers = [h \in ResponseHeaderNames |->
                           IF h \in CorsHeaders THEN CorsValue(h)
                           ELSE IF h \in Range(essentialHeaders) /\ Truthy(hs[h]) THEN hs[h]
                           ELSE r.headers[h]],
            !.body = StreamBody]

CatchHandler_Always500(r, err) ==
  IF ~r.headersSent
  THEN [r EXCEPT !.status = 500, !.body = ErrorBody(err.message),
                 !.headersSent = TRUE, !.ended = TRUE]
  ELSE r

\* the catch block, lines 250-265
CatchHandler(r, err) ==
  LET status == IF err.hasResponse /\ err.status # 0 THEN err.status ELSE 500
  IN  IF ~r.headersSent
      THEN [r EXCEPT !.status = status, !.body = ErrorBody(err.message),
                     !.headersSent = TRUE, !.ended = TRUE]
      ELSE r

DestroyUpstream_Noop(up) == up

\* response.data.destroy() in the 'close' listener, lines 244-248
DestroyUpstream(up) ==
  [up EXCEPT !.stream = IF @ = "open" THEN "destroyed" ELSE @,
             !.destroyCalls = @ + 1]

RangeSent_Never(range) == NoRange

\* the Range header of the streamed GET, line 211
RangeSent(range) == IF range # NoRange /\ range # "" THEN range ELSE NoRange

(***************************************************************************)
(* The steps of the handler.                                               *)
(***************************************************************************)
UrlMissing_Never(u) == FALSE

\* !url, line 100
UrlMissing(u) == u = NoUrl \/ u = << >>

\* a target axios can send a request to: an absolute http(s) URL
Reachable(url) == ParseBase(url).ok

\* lines 99-111 and 146: the url check, the extension check, the first call.
\* An array has no toLowerCase: line 103 throws outside the try block, the
\* promise of the async handler is rejected, and the framework either leaves
\* the rejection unhandled (no response) or answers 500 from its error handler.
Receive ==
  \E q \in Requests :
    /\ pc = "idle"
    /\ targetUrl' = q[1]
    /\ rangeHeader' = q[2]
    /\ IF UrlMissing(q[1])
       THEN /\ res' = [res EXCEPT !.status = 400, !.body = ErrorBody("URL is required"),
                                  !.headersSent = TRUE, !.ended = TRUE]
            /\ pc' = "done"
            /\ outcome' = "ClientInputError"
            /\ UNCHANGED <<calls, via, uncaught>>
       ELSE IF q[1] = UrlArray
       THEN /\ pc' = "done"
            /\ outcome' = "Rejected"
            /\ \/ uncaught' = TRUE /\ UNCHANGED res
               \/ /\ uncaught' = FALSE
                  /\ res' = [res EXCEPT !.status = 500,
                                        !.body = ErrorBody(LowerCaseTypeError.message),
                                        !.headersSent = TRUE, !.ended = TRUE]
            /\ UNCHANGED <<calls, via>>
       ELSE IF isM3U8(q[1])
       THEN /\ pc' = "manifestFetch"
            /\ calls' = [calls EXCEPT !.manifest = @ + 1]
            /\ via' = "extension"
            /\ UNCHANGED <<res, outcome, uncaught>>
       ELSE /\ pc' = "probe"
            /\ calls' = [calls EXCEPT !.probe = @ + 1]
            /\ UNCHANGED <<res, outcome, via, uncaught>>
    /\ UNCHANGED <<content, upstream, written, client, closeListener, caught, headCheck, aside>>

\* the catch block runs with the error of a rejected call
Throw(err) ==
  /\ caught' = err
  /\ res' = CatchHandler(res, err)
  /\ pc' = "done"
  /\ outcome' = "Failed-Upstream"

\* lines 111-143: the manifest GET of the extension branch is answered
ManifestFetchExtResponds ==
  \E st \in ManifestStatuses, body \in ManifestBodies :
    /\ pc = "manifestFetch"
    /\ Reachable(targetUrl)
    /\ IF validateStatusDefault(st)
       THEN /\ content' = transformResponse(body)
            /\ IF content' # JsonValue
               THEN /\ res' = ManifestResponseExt(res, rewrittenLinesExt(content', targetUrl))
                    /\ pc' = "done"
                    /\ outcome' = "Completed"
                    /\ UNCHANGED caught
               ELSE Throw(SplitTypeError)
       ELSE /\ body = LineBlank
            /\ Throw(HttpError(st))
            /\ UNCHANGED content
    /\ UNCHANGED <<targetUrl, rangeHeader, upstream, written, client, closeListener,
                   calls, via, uncaught, headCheck, aside>>

ManifestFetchExtFails_Retry ==
  /\ pc = "manifestFetch"
  /\ calls' = [calls EXCEPT !.manifest = @ + 1]
  /\ UNCHANGED <<pc, targetUrl, rangeHeader, content, res, upstream, written, client,
                 closeListener, caught, via, outcome, uncaught, headCheck, aside>>

\* lines 111-118: the manifest GET of the extension branch gets no answer
ManifestFetchExtFails ==
  /\ pc = "manifestFetch"
  /\ Throw(NetworkError)
  /\ UNCHANGED <<targetUrl, rangeHeader, content, upstream, written, client,
                 closeListener, calls, via, uncaught, headCheck, aside>>

\* line 158: headCheck?.headers?.['content-type'] || ''
contentTypeOf(hc) == IF hc = NullHeadCheck THEN << >> ELSE hc

AfterProbe_RelayDetected(contentType) ==
  /\ pc' = "streamFetch"
  /\ calls' = [calls EXCEPT !.stream = @ + 1]
  /\ upstream' = [upstream EXCEPT !.range = RangeSent(rangeHeader)]
  /\ via' = IF detectedM3U8(contentType) THEN "probe" ELSE via

\* lines 158-201: the content type decides between rewriting and relaying
AfterProbe(contentType) ==
  IF detectedM3U8(contentType)
  THEN /\ pc' = "manifestFetchDetected"
       /\ calls' = [calls EXCEPT !.manifest = @ + 1]
       /\ via' = "probe"
       /\ UNCHANGED upstream
  ELSE /\ pc' = "streamFetch"
       /\ calls' = [calls EXCEPT !.stream = @ + 1]
       /\ upstream' = [upstream EXCEPT !.range = RangeSent(rangeHeader)]
       /\ UNCHANGED via

\* lines 146-158: the HEAD probe is answered, whatever the status.  The
\* upstreams of the model declare a playlist type only for a request without
\* Range header, and a/x-m3u8 only for https://h/l/x.
ProbeResponds ==
  \E ct \in ProbeContentTypes :
    /\ pc = "probe"
    /\ Reachable(targetUrl)
    /\ detectedM3U8(ct) =>
         /\ rangeHeader = NoRange
         /\ ct = CtM3u8 <=> targetUrl = UrlNoExt
    /\ headCheck' = ct
    /\ AfterProbe(contentTypeOf(headCheck'))
    /\ UNCHANGED <<targetUrl, rangeHeader, content, res, written, client, closeListener,
                   caught, outcome, uncaught, aside>>

ProbeFails_Throws ==
  /\ pc = "probe"
  /\ headCheck' = NullHeadCheck
  /\ Throw(NetworkError)
  /\ UNCHANGED <<targetUrl, rangeHeader, content, upstream, written, client,
                 closeListener, calls, via, uncaught, aside>>

\* line 156: .catch(() => null) leaves the content type ''
ProbeFails ==
  /\ pc = "probe"
  /\ headCheck' = NullHeadCheck
  /\ AfterProbe(contentTypeOf(headCheck'))
  /\ UNCHANGED <<targetUrl, rangeHeader, content, res, written, client, closeListener,
                 caught, outcome, uncaught, aside>>

\* lines 166-198: the manifest GET of the content-type branch is answered
ManifestFetchDetectedResponds ==
  \E st \in ManifestStatuses, body \in ManifestBodies :
    /\ pc = "manifestFetchDetected"
    /\ Reachable(targetUrl)
    /\ IF validateStatusDefault(st)
       THEN /\ content' = transformResponse(body)
            /\ IF content' # JsonValue
               THEN /\ res' = ManifestResponseDetected(
                                res, rewrittenLinesDetected(content', targetUrl))
                    /\ pc' = "done"
                    /\ outcome' = "Completed"
                    /\ UNCHANGED caught
               ELSE Throw(SplitTypeError)
       ELSE /\ body = LineBlank
            /\ Throw(HttpError(st))
            /\ UNCHANGED content
    /\ UNCHANGED <<targetUrl, rangeHeader, upstream, written, client, closeListener,
                   calls, via, uncaught, headCheck, aside>>

\* lines 166-173: the manifest GET of the content-type branch gets no answer
ManifestFetchDetectedFails ==
  /\ pc = "manifestFetchDetected"
  /\ Throw(NetworkError)
  /\ UNCHANGED <<targetUrl, rangeHeader, content, upstream, written, client,
                 closeListener, calls, via, uncaught, headCheck, aside>>

\* lines 201-248: the streamed GET is answered; status, headers, pipe, listener
StreamFetchResponds ==
  \E st \in UpstreamStatuses, hs \in UpstreamHeaderSets, n \in 0..MaxChunks :
    /\ pc = "streamFetch"
    /\ Reachable(targetUrl)
    /\ IF validateStatusStream(st)
       THEN /\ res' = RelayResponse(res, st, hs)
            /\ upstream' = [upstream EXCEPT !.status = st, !.headers = hs,
                                            !.stream = "open",
                                            !.pending = [i \in 1..n |-> i],
                                            !.total = n]
            /\ closeListener' = TRUE
            /\ pc' = "piping"
            /\ UNCHANGED <<caught, outcome>>
       ELSE /\ hs = UpstreamBare /\ n = 0
            /\ Throw(HttpError(st))
            /\ UNCHANGED <<upstream, closeListener>>
    /\ UNCHANGED <<targetUrl, rangeHeader, content, written, client, calls, via, uncaught, headCheck, aside>>

StreamFetchFails_AbortsOther ==
  /\ pc = "streamFetch"
  /\ Throw(NetworkError)
  /\ other' = [other EXCEPT !.pc = "done", !.outcome = "Failed-Upstream"]
  /\ UNCHANGED <<targetUrl, rangeHeader, content, upstream, written, client,
                 closeListener, calls, via, uncaught, headCheck, active, svars>>

\* lines 201-214: the streamed GET gets no answer
StreamFetchFails ==
  /\ pc = "streamFetch"
  /\ Throw(NetworkError)
  /\ UNCHANGED <<targetUrl, rangeHeader, content, upstream, written, client,
                 closeListener, calls, via, uncaught, headCheck, aside>>

\* line 242: pipe() writes a chunk; a destroyed response takes none and
\* the source stays paused
UpstreamData ==
  /\ upstream.stream = "open"
  /\ ~upstream.paused
  /\ upstream.pending # << >>
  /\ IF client.closed
     THEN /\ upstream' = [upstream EXCEPT !.pending = Tail(@), !.paused = TRUE]
          /\ UNCHANGED <<written, res>>
     ELSE /\ upstream' = [upstream EXCEPT !.pending = Tail(@)]
          /\ written' = Append(written, Head(upstream.pending))
          /\ res' = [res EXCEPT !.headersSent = TRUE]
  /\ UNCHANGED <<pc, targetUrl, rangeHeader, content, client, closeListener, calls,
                 caught, via, outcome, uncaught, headCheck, aside>>

\* line 242: pipe() ends the response when the source ends
UpstreamEnd ==
  /\ upstream.stream = "open"
  /\ ~upstream.paused
  /\ upstream.pending = << >>
  /\ upstream' = [upstream EXCEPT !.stream = "ended"]
  /\ res' = [res EXCEPT !.headersSent = TRUE, !.ended = TRUE]
  /\ pc' = "done"
  /\ outcome' = "Completed"
  /\ UNCHANGED <<targetUrl, rangeHeader, content, written, client, closeListener,
                 calls, caught, via, uncaught, headCheck, aside>>

UpstreamError_SendsError ==
  /\ upstream.stream = "open"
  /\ upstream' = [upstream EXCEPT !.stream = "errored"]
  /\ res' = [res EXCEPT !.status = 500, !.body = ErrorBody("aborted"),
                        !.headersSent = TRUE, !.ended = TRUE]
  /\ pc' = "done"
  /\ outcome' = "Failed-Upstream"
  /\ UNCHANGED <<targetUrl, rangeHeader, content, written, client, closeListener,
                 calls, caught, via, uncaught, headCheck, aside>>

\* lines 242-248: the source fails while piped; nothing listens to its
\* 'error' unless the HTTP client does, and pipe() leaves the response open
UpstreamError ==
  /\ upstream.stream = "open"
  /\ upstream' = [upstream EXCEPT !.stream = "errored"]
  /\ uncaught' \in BOOLEAN
  /\ pc' = "done"
  /\ outcome' = "Failed-Upstream"
  /\ UNCHANGED <<targetUrl, rangeHeader, content, res, written, client, closeListener,
                 calls, caught, via, headCheck, aside>>

\* lines 244-248: the connection closes; the listener runs if it is registered
ClientClose ==
  /\ pc \in {"manifestFetch", "probe", "manifestFetchDetected", "streamFetch", "piping"}
  /\ ~client.closed
  /\ client' = [closed |-> TRUE, closedAt |-> pc]
  /\ IF closeListener
     THEN /\ upstream' = DestroyUpstream(upstream)
          /\ pc' = "done"
          /\ outcome' = "Aborted-By-Client"
     ELSE UNCHANGED <<upstream, pc, outcome>>
  /\ UNCHANGED <<targetUrl, rangeHeader, content, res, written, closeListener, calls,
                 caught, via, uncaught, headCheck, aside>>

Next ==
  \/ Receive
  \/ ManifestFetchExtResponds
  \/ ManifestFetchExtFails
  \/ ProbeResponds
  \/ ProbeFails
  \/ ManifestFetchDetectedResponds
  \/ ManifestFetchDetectedFails
  \/ StreamFetchResponds
  \/ StreamFetchFails
  \/ UpstreamData
  \/ UpstreamEnd
  \/ UpstreamError
  \/ ClientClose

Spec == Init /\ [][Next]_vars

\* the event loop runs every callback that is ready.  A call that can be
\* answered can also fail, so a step is enabled exactly when one of the steps
\* below is, and no run takes infinitely many steps: the condition is the
\* one of WF_vars(Next), written over the steps that do not parse the URL.
FairSpec ==
  Spec /\ WF_vars(\/ Receive
                  \/ ManifestFetchExtFails
                  \/ ProbeFails
                  \/ ManifestFetchDetectedFails
                  \/ StreamFetchFails
                  \/ UpstreamData
                  \/ UpstreamEnd
                  \/ UpstreamError
                  \/ ClientClose)

(***************************************************************************)
(* Two /api/stream requests in flight: every invocation of the handler has *)
(* its own locals, and the event loop runs one callback at a time.         *)
(***************************************************************************)
\* the locals of the running invocation
RequestState ==
  [pc |-> pc, targetUrl |-> targetUrl, rangeHeader |-> rangeHeader, content |-> content,
   res |-> res, upstream |-> upstream, written |-> written, client |-> client,
   closeListener |-> closeListener, calls |-> calls, caught |-> caught, via |-> via,
   outcome |-> outcome, uncaught |-> uncaught, headCheck |-> headCheck]

\* the requests and answers the two-request runs are sampled from
SampledRun ==
  /\ targetUrl \in (IF active = 1 THEN {NoUrl, UrlExt, UrlSegment} ELSE {NoUrl, UrlSegment})
  /\ rangeHeader \in {NoRange, "bytes=1000-1999"}
  /\ content \in {NoContent, LineRel}
  /\ headCheck \in {NoHeadCheck, NullHeadCheck, CtManifest}
  /\ upstream.status \in {0, 206}
  /\ upstream.headers \in {UpstreamBare, UpstreamPartial}
  /\ upstream.total \in {0, 1}
  /\ caught \in {NoError, NetworkError}
  /\ client.closedAt \in {"none", "piping"}
  /\ ~uncaught

\* the event loop turns to a callback of the other request
Switch ==
  /\ active' = 3 - active
  /\ other' = RequestState
  /\ pc' = other.pc
  /\ targetUrl' = other.targetUrl
  /\ rangeHeader' = other.rangeHeader
  /\ content' = other.content
  /\ res' = other.res
  /\ upstream' = other.upstream
  /\ written' = other.written
  /\ client' = other.client
  /\ closeListener' = other.closeListener
  /\ calls' = other.calls
  /\ caught' = other.caught
  /\ via' = other.via
  /\ outcome' = other.outcome
  /\ uncaught' = other.uncaught
  /\ headCheck' = other.headCheck
  /\ UNCHANGED svars

\* a step of the running request
RunActive == Next /\ SampledRun'

TwoNext ==
  \/ RunActive
  \/ Switch

TwoSpec == Init /\ [][TwoNext]_allvars

(***************************************************************************)
(* Sessions: the session routes and the cleanup interval of the server,    *)
(* and the App component of the client with its heartbeat.  Time is        *)
(* counted in minutes.                                                     *)
(***************************************************************************)
\* the clock of the model stops here
MaxTime == 7

\* SESSION_TIMEOUT, 5 * 60 * 1000 ms
SESSION_TIMEOUT == 5

\* setInterval(sendHeartbeat, 2 * 60 * 1000)
HeartbeatEvery == 2

\* the id generateSessionId gives the client, and the id of another client
ClientId == "sess_1"

ForeignId == "sess_2"

\* a body without sessionId
NoId == ""

\* the session map with key k set to v
Put(m, k, v) == [x \in DOMAIN m \union {k} |-> IF x = k THEN v ELSE m[x]]

\* the session map without key k
Remove(m, k) == [x \in DOMAIN m \ {k} |-> m[x]]

\* sessions.get(sessionId)?.loginTime || Date.now()
loginTimeOf(m, id, t) ==
  IF id \in DOMAIN m /\ m[id].loginTime # 0 THEN m[id].loginTime ELSE t

\* POST /api/session: the map after sessions.set
createSession(m, id, user, t) ==
  Put(m, id, [user |-> user, loginTime |-> loginTimeOf(m, id, t), lastActivity |-> t])

touchSession_Upsert(m, id, t) ==
  Put(m, id, [user |-> "", loginTime |-> loginTimeOf(m, id, t), lastActivity |-> t])

touchSession_Ignored(m, id, t) == m

\* POST /api/session/heartbeat: the map after the handler
touchSession(m, id, t) ==
  IF id \in DOMAIN m THEN [m EXCEPT ![id].lastActivity = t] ELSE m

removeInactive_AtTimeout(m, t) ==
  [x \in {y \in DOMAIN m : t - m[y].lastActivity < SESSION_TIMEOUT} |-> m[x]]

\* the forEach of the cleanup interval: the map after it
removeInactive(m, t) ==
  [x \in {y \in DOMAIN m : ~(t - m[y].lastActivity > SESSION_TIMEOUT)} |-> m[x]]

\* .filter(s => now - s.lastActivity < SESSION_TIMEOUT)
activeSessions(m, t) == {x \in DOMAIN m : t - m[x].lastActivity < SESSION_TIMEOUT}

\* process.env.ADMIN_PASSWORD || "admin"
expectedPassword == IF adminEnv # NoEnv /\ adminEnv # "" THEN adminEnv ELSE "admin"

adminAuth_Open(password) == TRUE

\* password !== expectedPassword is false
adminAuth(password) == password = expectedPassword

\* the x-admin-password headers of the requests
Passwords == {Absent, "admin", "s3cret", "wrong"}

\* what the session routes and timers leave alone
notSessions == <<vars, other, active, adminEnv, servers, nextServerId, appConfig>>

\* POST /api/session
PostSession(id, user) ==
  /\ IF id = NoId \/ user = ""
     THEN /\ event' = [kind |-> "createSession", id |-> id, status |-> 400]
          /\ UNCHANGED <<sessions, sessionsFile>>
     ELSE /\ sessions' = createSession(sessions, id, user, now)
          /\ sessionsFile' = sessions'
          /\ event' = [kind |-> "createSession", id |-> id, status |-> 200]
  /\ UNCHANGED <<now, notSessions>>

\* POST /api/session/heartbeat
PostHeartbeat(id) ==
  /\ IF id = NoId
     THEN /\ event' = [kind |-> "heartbeat", id |-> id, status |-> 400]
          /\ UNCHANGED <<sessions, sessionsFile>>
     ELSE /\ sessions' = touchSession(sessions, id, now)
          /\ sessionsFile' = IF id \in DOMAIN sessions THEN sessions' ELSE sessionsFile
          /\ event' = [kind |-> "heartbeat", id |-> id, status |-> 200]
  /\ UNCHANGED <<now, notSessions>>

\* DELETE /api/session/:sessionId
DeleteSession(id) ==
  /\ sessions' = Remove(sessions, id)
  /\ sessionsFile' = IF id \in DOMAIN sessions THEN sessions' ELSE sessionsFile
  /\ event' = [kind |-> "deleteSession", id |-> id, status |-> 200]
  /\ UNCHANGED <<now, notSessions>>

\* the callback of the cleanup interval
Cleanup ==
  /\ sessions' = removeInactive(sessions, now)
  /\ sessionsFile' = IF sessions' # sessions THEN sessions' ELSE sessionsFile
  /\ event' = [kind |-> "cleanup"]
  /\ UNCHANGED <<now, tab, auth, stored, beat, notSessions>>

\* GET /api/sessions
GetSessions ==
  \E password \in Passwords :
    /\ event' = IF adminAuth(password)
                THEN [kind |-> "listSessions", password |-> password, status |-> 200,
                      listed |-> activeSessions(sessions, now)]
                ELSE [kind |-> "listSessions", password |-> password, status |-> 401]
    /\ UNCHANGED <<now, sessions, sessionsFile, tab, auth, stored, beat, notSessions>>

\* GET /api/sessions/stats
GetStats ==
  \E password \in Passwords :
    /\ event' = IF adminAuth(password)
                THEN [kind |-> "stats", password |-> password, status |-> 200,
                      online |-> Cardinality(activeSessions(sessions, now)),
                      total |-> Cardinality(DOMAIN sessions)]
                ELSE [kind |-> "stats", password |-> password, status |-> 401]
    /\ UNCHANGED <<now, sessions, sessionsFile, tab, auth, stored, beat, notSessions>>

\* requests of another client
ForeignPostSession ==
  \E id \in {ForeignId, NoId}, user \in {"v", ""} :
    /\ PostSession(id, user)
    /\ UNCHANGED <<tab, auth, stored, beat>>

ForeignHeartbeat ==
  \E id \in {ForeignId, NoId} :
    /\ PostHeartbeat(id)
    /\ UNCHANGED <<tab, auth, stored, beat>>

ForeignDelete ==
  /\ DeleteSession(ForeignId)
  /\ UNCHANGED <<tab, auth, stored, beat>>

\* the tab is opened or reloaded: auth comes back from localStorage and the
\* heartbeat effect is due at once
OpenTab ==
  /\ tab = "closed"
  /\ tab' = "open"
  /\ auth' = stored
  /\ beat' = [beat EXCEPT !.due = stored # NoAuth]
  /\ event' = [kind |-> "open"]
  /\ UNCHANGED <<now, sessions, sessionsFile, stored, notSessions>>

\* the tab is closed: its state and its interval are gone, localStorage stays
CloseTab ==
  /\ tab = "open"
  /\ tab' = "closed"
  /\ auth' = NoAuth
  /\ beat' = [beat EXCEPT !.due = FALSE]
  /\ event' = [kind |-> "close"]
  /\ UNCHANGED <<now, sessions, sessionsFile, stored, notSessions>>

\* handleLogin: the session is posted, then auth is set and stored
ClientLogin ==
  /\ tab = "open"
  /\ auth = NoAuth
  /\ PostSession(ClientId, "u")
  /\ auth' = ClientId
  /\ stored' = ClientId
  /\ beat' = [age |-> 0, due |-> TRUE, kept |-> TRUE]
  /\ UNCHANGED tab

\* sendHeartbeat, at once after auth changed and then from the interval
ClientHeartbeat ==
  /\ tab = "open"
  /\ auth # NoAuth
  /\ beat.due
  /\ PostHeartbeat(auth)
  /\ beat' = [beat EXCEPT !.age = 0, !.due = FALSE]
  /\ UNCHANGED <<tab, auth, stored>>

\* handleLogout
ClientLogout ==
  /\ tab = "open"
  /\ auth # NoAuth
  /\ DeleteSession(auth)
  /\ auth' = NoAuth
  /\ stored' = NoAuth
  /\ beat' = [age |-> 0, due |-> FALSE, kept |-> FALSE]
  /\ UNCHANGED tab

\* a minute goes by; a heartbeat that is due in a running tab is sent before,
\* and the interval of a running tab fires every HeartbeatEvery minutes
Tick ==
  /\ now < MaxTime
  /\ now' = now + 1
  /\ IF stored = NoAuth
     THEN UNCHANGED beat
     ELSE IF tab = "open" /\ auth # NoAuth
     THEN /\ ~beat.due
          /\ beat' = [beat EXCEPT !.age = @ + 1, !.due = (beat.age + 1 = HeartbeatEvery)]
     ELSE beat' = [beat EXCEPT !.age = @ + 1,
                               !.kept = @ /\ beat.age + 1 <= HeartbeatEvery]
  /\ event' = [kind |-> "tick"]
  /\ UNCHANGED <<sessions, sessionsFile, tab, auth, stored, notSessions>>

SessionNext ==
  \/ ClientLogin
  \/ ClientHeartbeat
  \/ ClientLogout
  \/ OpenTab
  \/ CloseTab
  \/ Tick
  \/ Cleanup
  \/ ForeignPostSession
  \/ ForeignHeartbeat
  \/ ForeignDelete
  \/ GetSessions
  \/ GetStats

SessionSpec == Init /\ [][SessionNext]_allvars

(***************************************************************************)
(* The admin routes: servers and app config behind adminAuth.              *)
(***************************************************************************)
\* the servers list holds at most this many entries in the model
MaxServers == 2

\* the names and URLs of the bodies of POST /api/servers
ServerNames == {"", "tv"}

ServerUrls == {<< >>, <<"h","t","t","p",":","/","/","h">>, <<"h","t","t","p",":","/","/","h","/">>}

\* the appName values of the bodies of POST /api/config
AppNames == {"", "MyTV"}

\* url.replace(/\/$/, "")
cleanUrl(url) ==
  IF url # << >> /\ url[Len(url)] = "/" THEN SubSeq(url, 1, Len(url) - 1) ELSE url

\* servers.filter(s => s.id !== id)
withoutServer(list, id) == SelectSeq(list, LAMBDA srv : srv.id # id)

\* what the admin routes leave alone
notAdmin ==
  <<vars, other, active, now, sessions, sessionsFile, tab, auth, stored, beat, adminEnv>>

\* POST /api/servers
PostServer ==
  \E password \in Passwords, name \in ServerNames, url \in ServerUrls :
    /\ nextServerId <= MaxServers
    /\ IF ~adminAuth(password)
       THEN /\ event' = [kind |-> "addServer", password |-> password, status |-> 401]
            /\ UNCHANGED <<servers, nextServerId>>
       ELSE IF name = "" \/ url = << >>
       THEN /\ event' = [kind |-> "addServer", password |-> password, status |-> 400]
            /\ UNCHANGED <<servers, nextServerId>>
       ELSE /\ servers' = Append(servers, [id |-> nextServerId, name |-> name,
                                           url |-> cleanUrl(url)])
            /\ nextServerId' = nextServerId + 1
            /\ event' = [kind |-> "addServer", password |-> password, status |-> 200]
    /\ UNCHANGED <<appConfig, notAdmin>>

\* DELETE /api/servers/:id
DeleteServer ==
  \E password \in Passwords, id \in 1..MaxServers :
    /\ IF ~adminAuth(password)
       THEN /\ event' = [kind |-> "deleteServer", password |-> password, status |-> 401]
            /\ UNCHANGED servers
       ELSE /\ servers' = withoutServer(servers, id)
            /\ event' = [kind |-> "deleteServer", password |-> password, status |-> 200]
    /\ UNCHANGED <<nextServerId, appConfig, notAdmin>>

\* POST /api/config
PostConfig ==
  \E password \in Passwords, appName \in AppNames :
    /\ IF ~adminAuth(password)
       THEN /\ event' = [kind |-> "updateConfig", password |-> password, status |-> 401]
            /\ UNCHANGED appConfig
       ELSE /\ appConfig' = IF appName # "" THEN [appConfig EXCEPT !.appName = appName]
                                             ELSE appConfig
            /\ event' = [kind |-> "updateConfig", password |-> password, status |-> 200]
    /\ UNCHANGED <<servers, nextServerId, notAdmin>>

\* the process starts with ADMIN_PASSWORD unset, empty or set
AdminInit ==
  \E env \in {NoEnv, "", "s3cret"} :
    /\ pc = "idle"
    /\ targetUrl = NoUrl
    /\ rangeHeader = NoRange
    /\ content = NoContent
    /\ res = FreshResponse
    /\ upstream = NoUpstream
    /\ written = << >>
    /\ client = [closed |-> FALSE, closedAt |-> "none"]
    /\ closeListener = FALSE
    /\ calls = [probe |-> 0, manifest |-> 0, stream |-> 0]
    /\ caught = NoError
    /\ via = "none"
    /\ outcome = "none"
    /\ uncaught = FALSE
    /\ headCheck = NoHeadCheck
    /\ other = FreshRequest
    /\ active = 1
    /\ now = 1
    /\ sessions = << >>
    /\ sessionsFile = << >>
    /\ tab = "closed"
    /\ auth = NoAuth
    /\ stored = NoAuth
    /\ beat = [age |-> 0, due |-> FALSE, kept |-> FALSE]
    /\ event = [kind |-> "none"]
    /\ adminEnv = env
    /\ servers = << >>
    /\ nextServerId = 1
    /\ appConfig = DefaultConfig

AdminNext ==
  \/ PostServer
  \/ DeleteServer
  \/ PostConfig
  \/ GetSessions
  \/ GetStats
  \/ ForeignPostSession

AdminSpec == AdminInit /\ [][AdminNext]_allvars

(***************************************************************************)
(* Properties.                                                             *)
(***************************************************************************)
\* the request was answered with a rewritten playlist
ManifestAnswered == outcome = "Completed" /\ res.body.kind = "text"

\* the lines of the fetched playlist and of the playlist sent
InLines == split(content, "\n")

OutLines == split(res.body.text, "\n")

IsBlank(line) == \A i \in DOMAIN line : line[i] \in WhiteSpace

IsComment(line) == line # << >> /\ line[1] = "#"

IsReference(line) == ~IsBlank(line) /\ ~IsComment(line)

BeginsWithHttpScheme(line) ==
  \/ startsWith(line, <<"h","t","t","p",":","/","/">>)
  \/ startsWith(line, <<"h","t","t","p","s",":","/","/">>)

\* the reference of a line, resolved against the manifest URL cut after its last '/'
Resolved(line) == ParseURL(trim(line), baseUrl(targetUrl))

\* /proxy-stream?url=
SpecProxyPrefix ==
  <<"/","p","r","o","x","y","-","s","t","r","e","a","m","?","u","r","l","=">>

\* C1: in a relay whose body is being piped, a client disconnect before the
\* upstream stream ended calls destroy() on the upstream stream exactly once and
\* leaves it destroyed, and no chunk is written to the response after a destroy.
C1_DisconnectAbortsOnce ==
  /\ [](client.closedAt = "piping" =>
          upstream.destroyCalls = 1 /\ upstream.stream = "destroyed")
  /\ [][upstream.destroyCalls > 0 => written' = written]_vars

\* a disconnect between two chunks of a piped body
W1_DisconnectMidStream ==
  /\ client.closedAt = "piping"
  /\ written # << >>
  /\ upstream.pending # << >>
  /\ upstream.destroyCalls = 1

\* C2: no reachable state has a closed client connection together with an
\* upstream stream that stays open and is never aborted: a stream that is open,
\* was never destroyed and is paused because the response takes no more
\* writes, while the 'close' event has already gone by.
X2_NoLeakedUpstream ==
  ~(/\ client.closed
    /\ upstream.stream = "open"
    /\ upstream.paused
    /\ upstream.destroyCalls = 0)

\* C3: when a manifest fetch or the streamed fetch is rejected, the response is
\* the error's upstream status if it has one and 500 otherwise, with an error
\* body and nothing else; and once headers are sent neither the status nor the
\* body is replaced.
C3_FetchFailureAnswer ==
  /\ [](caught.thrown =>
          /\ res.status = (IF caught.hasResponse THEN caught.status ELSE 500)
          /\ res.body = ErrorBody(caught.message)
          /\ res.ended)
  /\ [][res.headersSent => res'.status = res.status /\ res'.body = res.body]_vars

\* a manifest fetch answered 404 is answered 404, with the error body
W3_ManifestFetch404 ==
  /\ caught.thrown
  /\ caught.hasResponse
  /\ calls.manifest = 1
  /\ res.status = 404
  /\ res.body.kind = "error"

\* C4: in the binary relay the response status is the upstream status, whatever
\* it is, the body is the upstream body (all of it once the relay completed),
\* and a relay error is only ever sent when the upstream gave no status.
C4_RelayMirrorsStatus ==
  /\ upstream.stream # "none" =>
       /\ res.status = upstream.status
       /\ res.body = StreamBody
       /\ outcome = "Completed" => written = [i \in 1..upstream.total |-> i]
  /\ (calls.stream = 1 /\ caught.thrown) => ~caught.hasResponse

\* an upstream 404 with a body, relayed to the end
W4_Upstream404Relayed ==
  /\ upstream.status = 404
  /\ res.status = 404
  /\ outcome = "Completed"
  /\ written # << >>

\* C5: every line that is blank or begins with '#' is at the same position,
\* unchanged, in the playlist sent, and only lines that are neither differ.
C5_CommentsAndBlanksKept ==
  ManifestAnswered =>
    /\ Len(OutLines) = Len(InLines)
    /\ \A i \in DOMAIN InLines :
         /\ (IsBlank(InLines[i]) \/ IsComment(InLines[i])) => OutLines[i] = InLines[i]
         /\ OutLines[i] # InLines[i] => IsReference(InLines[i])

\* a playlist with a whitespace-only line kept and a reference rewritten
W5_BlankKeptReferenceRewritten ==
  /\ ManifestAnswered
  /\ \E i \in DOMAIN InLines : InLines[i] = LineCR /\ OutLines[i] = LineCR
  /\ \E j \in DOMAIN InLines : OutLines[j] # InLines[j]

\* C6, as stated: a line that begins with http:// or https:// is sent as
\* /proxy-stream?url= followed by the percent-encoding of that exact line.
X6_SpecPrefixExactLine ==
  ManifestAnswered =>
    \A i \in DOMAIN InLines :
      BeginsWithHttpScheme(InLines[i]) =>
        OutLines[i] = SpecProxyPrefix \o encodeURIComponent(InLines[i])

\* C6, amended: a line that begins with http:// or https:// is sent as
\* /api/stream?url= followed by the percent-encoding of the line with its
\* surrounding whitespace trimmed, not resolved against the base URL.
C6_AbsoluteLineEncoded ==
  ManifestAnswered =>
    \A i \in DOMAIN InLines :
      BeginsWithHttpScheme(InLines[i]) =>
        OutLines[i] = ProxyPrefix \o encodeURIComponent(trim(InLines[i]))

\* an absolute reference with a query and a trailing carriage return
W6_AbsoluteLineWithCR ==
  /\ ManifestAnswered
  /\ \E i \in DOMAIN InLines :
       /\ InLines[i] = LineAbsQueryCR
       /\ OutLines[i] = ProxyPrefix \o encodeURIComponent(trim(LineAbsQueryCR))

\* C7: a reference line that does not begin with http:// or https:// is sent
\* as the proxy URL of the reference resolved against the manifest URL cut
\* after its last '/'.
X7_RelativeLineResolved ==
  ManifestAnswered =>
    \A i \in DOMAIN InLines :
      (/\ IsReference(InLines[i])
       /\ ~BeginsWithHttpScheme(InLines[i])
       /\ Resolved(InLines[i]).ok) =>
        OutLines[i] = ProxyPrefix \o encodeURIComponent(Href(Resolved(InLines[i])))

\* C8: a reference line whose resolution fails is sent unmodified, every other
\* reference line of the playlist is still rewritten, and the answer is the
\* 200 playlist.
C8_BadLineIsolated ==
  (/\ pc = "done"
   /\ content \notin {NoContent, JsonValue}
   /\ \E i \in DOMAIN InLines : IsReference(InLines[i]) /\ ~Resolved(InLines[i]).ok) =>
    /\ ManifestAnswered
    /\ res.status = 200
    /\ Len(OutLines) = Len(InLines)
    /\ \A i \in DOMAIN InLines :
         IsReference(InLines[i]) =>
           IF Resolved(InLines[i]).ok
           THEN startsWith(OutLines[i], ProxyPrefix)
           ELSE OutLines[i] = InLines[i]

\* a playlist with a line that does not resolve next to one that does
W8_BadLineNextToGoodLine ==
  /\ ManifestAnswered
  /\ res.status = 200
  /\ \E i, j \in DOMAIN InLines :
       /\ InLines[i] = LineBadHost /\ OutLines[i] = LineBadHost
       /\ InLines[j] = LineRel /\ startsWith(OutLines[j], ProxyPrefix)

\* C9: a request classified as manifest, by the extension or by the probe,
\* whose fetch succeeded (response.data was received) is answered 200 with
\* Content-Type application/vnd.apple.mpegurl, Access-Control-Allow-Origin *,
\* and a playlist as its body.
X9_ManifestResponse ==
  (via \in {"extension", "probe"} /\ pc = "done" /\ content # NoContent) =>
    /\ res.status = 200
    /\ res.headers["content-type"] = "application/vnd.apple.mpegurl"
    /\ res.headers["access-control-allow-origin"] = "*"
    /\ res.body.kind = "text"
    /\ res.ended

\* the path of a URL, its query string stripped, ends in .m3u8 in any case
PathEndsInM3U8(url) ==
  LET path == SubSeq(url, 1, FirstOf(url, {"?"}) - 1)
  IN  /\ Len(path) >= Len(DotM3U8)
      /\ \A k \in DOMAIN DotM3U8 :
           LowerChar(path[Len(path) - Len(DotM3U8) + k]) = DotM3U8[k]

\* C10: a request whose URL path ends in .m3u8, in any letter case and with or
\* without a query string, is classified as manifest by the extension and no
\* HEAD probe is issued for it.
C10_ExtensionSkipsProbe ==
  (targetUrl # NoUrl /\ PathEndsInM3U8(targetUrl)) =>
    /\ via = "extension"
    /\ calls.probe = 0
    /\ calls.stream = 0
    /\ pc \in {"manifestFetch", "done"}

\* http://h/a/V.M3U8?t=1 answered with a playlist and no probe
W10_UpperCaseExtensionWithQuery ==
  /\ targetUrl = UrlExtUpperQuery
  /\ ManifestAnswered
  /\ calls.probe = 0

AnyCaseManifestType(ct) ==
  \/ includes(toLowerCase(ct), StrMpegurl)
  \/ includes(toLowerCase(ct), StrM3u8)

ProbeAnswered == headCheck # NoHeadCheck /\ headCheck # NullHeadCheck

\* C11: when the probe's content type contains 'mpegurl' or 'm3u8' in any
\* letter case the request is reclassified as a manifest and rewritten, and
\* when it contains neither the body is relayed as binary.
X11_AnyCaseTypeReclassified ==
  ProbeAnswered =>
    IF AnyCaseManifestType(headCheck)
    THEN via = "probe" /\ calls.manifest = 1 /\ calls.stream = 0
    ELSE via = "none" /\ calls.manifest = 0 /\ calls.stream = 1

\* C12: a probe that fails or times out leaves the request a non-manifest one
\* that goes on to the byte relay, and an error response after it comes from
\* the streamed fetch, never from the probe alone.
C12_ProbeFailureRelays ==
  headCheck = NullHeadCheck =>
    /\ via = "none"
    /\ calls.manifest = 0
    /\ calls.stream = 1
    /\ pc \in {"streamFetch", "piping", "done"}
    /\ res.body.kind = "error" => (caught.thrown /\ upstream.stream = "none")

\* the probe failed and the bytes of the target were relayed to the end
W12_ProbeFailedRelayCompleted ==
  /\ headCheck = NullHeadCheck
  /\ outcome = "Completed"
  /\ res.body = StreamBody
  /\ res.ended
  /\ Len(written) = MaxChunks

\* the streamed GET was answered and its answer relayed
Relayed == upstream.stream # "none" /\ res.body = StreamBody

SpecContentRange == "bytes 1000-1999/5000"

\* C13 as stated: the streamed fetch carries a Range header exactly when the
\* client request carried one, with the identical value, and an upstream 206
\* with Content-Range bytes 1000-1999/5000 reaches the client as it is.
X13_RangeForwardedWhenPresent ==
  /\ calls.stream = 1 => upstream.range = rangeHeader
  /\ (Relayed /\ upstream.status = 206
        /\ upstream.headers["content-range"] = SpecContentRange) =>
       /\ res.status = 206
       /\ res.headers["content-range"] = SpecContentRange

\* C13: the streamed fetch carries a Range header exactly when the client
\* request carried one with a non-empty value, with the identical value, and
\* an upstream 206 with Content-Range bytes 1000-1999/5000 reaches the client
\* with that status and that Content-Range.
C13_NonEmptyRangeForwarded ==
  /\ calls.stream = 1 =>
       /\ (rangeHeader # NoRange /\ rangeHeader # "") => upstream.range = rangeHeader
       /\ (rangeHeader = NoRange \/ rangeHeader = "") => upstream.range = NoRange
  /\ (Relayed /\ upstream.status = 206
        /\ upstream.headers["content-range"] = SpecContentRange) =>
       /\ res.status = 206
       /\ res.headers["content-range"] = SpecContentRange

\* bytes=1000-1999 asked, forwarded, answered 206 and relayed to the end
W13_RangeRelayed206 ==
  /\ rangeHeader = "bytes=1000-1999"
  /\ upstream.range = "bytes=1000-1999"
  /\ upstream.status = 206
  /\ res.status = 206
  /\ res.headers["content-range"] = SpecContentRange
  /\ outcome = "Completed"

\* C14 as stated: of the upstream headers only the five essential ones reach
\* the client, each with its upstream value whenever upstream sent it.
X14_EssentialCopiedWhenSent ==
  Relayed =>
    /\ \A h \in Range(essentialHeaders) : res.headers[h] = upstream.headers[h]
    /\ \A h \in UpstreamHeaderNames \ (Range(essentialHeaders) \union CorsHeaders) :
         res.headers[h] = Absent
    /\ \A h \in UpstreamHeaderNames \intersect CorsHeaders :
         res.headers[h] = CorsValue(h)

\* C14: of the upstream headers only the five essential ones reach the
\* client, each with its upstream value when upstream sent it with a
\* non-empty value and absent otherwise; no other upstream header appears.
C14_OnlyEssentialHeadersCopied ==
  Relayed =>
    /\ \A h \in Range(essentialHeaders) :
         res.headers[h] = IF upstream.headers[h] \notin {Absent, ""}
                          THEN upstream.headers[h] ELSE Absent
    /\ \A h \in UpstreamHeaderNames \ (Range(essentialHeaders) \union CorsHeaders) :
         res.headers[h] = Absent
    /\ \A h \in UpstreamHeaderNames \intersect CorsHeaders :
         res.headers[h] = CorsValue(h)

\* upstream sent essential headers and a cookie
W14_UpstreamCookieDropped ==
  /\ Relayed
  /\ upstream.headers["set-cookie"] # Absent
  /\ res.headers["set-cookie"] = Absent
  /\ res.headers["content-range"] = SpecContentRange
  /\ res.headers["content-type"] = upstream.headers["content-type"]

\* C15: every binary relay response carries the four permissive CORS headers
\* with their fixed values, whatever status and headers upstream sent.
C15_RelayAlwaysCors ==
  Relayed =>
    /\ res.headers["access-control-allow-origin"] = "*"
    /\ res.headers["access-control-allow-methods"] = "GET, OPTIONS"
    /\ res.headers["access-control-allow-headers"] = "*"
    /\ res.headers["access-control-expose-headers"] = "*"

\* upstream answered 500 with its own Access-Control-Allow-Origin
W15_UpstreamCorsOverridden ==
  /\ Relayed
  /\ upstream.status = 500
  /\ upstream.headers["access-control-allow-origin"] \notin {Absent, "*"}
  /\ res.headers["access-control-allow-origin"] = "*"

NoCalls == [probe |-> 0, manifest |-> 0, stream |-> 0]

\* C16: a request without a url parameter is answered 400 with an error body
\* and no probe, manifest fetch or streamed fetch is issued for it.
C16_MissingUrl400 ==
  (pc # "idle" /\ targetUrl = NoUrl) =>
    /\ res.status = 400
    /\ res.body.kind = "error"
    /\ res.ended
    /\ calls = NoCalls
    /\ upstream = NoUpstream

\* the request without url, answered
W16_MissingUrlAnswered ==
  /\ pc = "done"
  /\ targetUrl = NoUrl
  /\ res.status = 400
  /\ res.body = ErrorBody("URL is required")

\* a url parameter that is there and is no absolute URL, or no single string
MalformedUrl ==
  /\ targetUrl # NoUrl
  /\ targetUrl = UrlArray \/ ~ParseBase(targetUrl).ok

\* C17: a request whose url parameter is present but is no syntactically valid
\* absolute URL, or no single string, is answered 400 and no upstream call is
\* attempted for it.
X17_MalformedUrl400 ==
  (pc # "idle" /\ MalformedUrl) =>
    /\ res.status = 400
    /\ calls = NoCalls

\* the state of the request of the relay state machine
Phase ==
  CASE pc = "idle" -> "Received"
    [] pc = "probe" -> "Detecting"
    [] pc \in {"manifestFetch", "manifestFetchDetected"} -> "Rewriting-Manifest"
    [] pc \in {"streamFetch", "piping"} -> "Relaying-Bytes"
    [] pc = "done" -> outcome

TerminalPhases == {"Completed", "Aborted-By-Client", "Failed-Upstream"}

\* a request refused at Received never enters the machine
RefusedPhases == {"ClientInputError", "Rejected"}

PhaseEdges ==
  {<<"Received", "Detecting">>, <<"Received", "Rewriting-Manifest">>,
   <<"Detecting", "Rewriting-Manifest">>, <<"Detecting", "Relaying-Bytes">>}
  \union ({"Rewriting-Manifest", "Relaying-Bytes"} \X TerminalPhases)
  \union ({"Received"} \X RefusedPhases)

\* C18: a request moves only along Received -> Detecting -> {Rewriting-Manifest
\* | Relaying-Bytes} -> {Completed | Aborted-By-Client | Failed-Upstream}, with
\* Detecting skipped only when the extension classified it; it never fetches a
\* manifest and relays bytes in one request, never leaves a terminal state, and
\* never is in Relaying-Bytes once classified as manifest.
C18_PhaseOrder ==
  [][/\ Phase' # Phase => <<Phase, Phase'>> \in PhaseEdges
     /\ (Phase = "Received" /\ Phase' = "Rewriting-Manifest") => via' = "extension"
     /\ pc = "done" => (pc' = "done" /\ outcome' = outcome /\ res' = res)
     /\ ~(calls'.manifest > 0 /\ calls'.stream > 0)
     /\ via' # "none" => Phase' \notin {"Detecting", "Relaying-Bytes"}]_vars

\* Received, Detecting, Rewriting-Manifest, Completed
W18_ProbedManifestCompleted ==
  /\ Phase = "Completed"
  /\ via = "probe"
  /\ calls = [probe |-> 1, manifest |-> 1, stream |-> 0]
  /\ res.body.kind = "text"

\* C19: the probe, the manifest fetch and the streamed fetch are each issued
\* at most once in a request, and the step in which a fetch fails ends the
\* request without another upstream call.
C19_NoRetry ==
  [][/\ \A k \in DOMAIN calls : calls'[k] <= 1
     /\ caught'.thrown => (pc' = "done" /\ calls' = calls)
     /\ pc = "done" => calls' = calls]_vars

\* the probe found a manifest and the one manifest fetch failed
W19_ManifestFetchFailedOnce ==
  /\ caught = NetworkError
  /\ outcome = "Failed-Upstream"
  /\ calls = [probe |-> 1, manifest |-> 1, stream |-> 0]

\* C20: no error arising in a proxy request leaves an unhandled exception or
\* rejection or terminates the process.
X20_NoUnhandledError == ~uncaught

\* C21: under fair scheduling every request eventually is in a terminal state
\* with the client response ended (or the client gone), also when upstream
\* fails after the headers were sent.
X21_EventuallyEnded ==
  <>(pc = "done" /\ (res.ended \/ client.closed))

\* the output line is the input line, or the proxy reference of that line
DerivedFrom(out, in) ==
  \/ out = in
  \/ out = ProxyPrefix \o encodeURIComponent(trim(in))
  \/ /\ Resolved(in).ok
     /\ out = ProxyPrefix \o encodeURIComponent(Href(Resolved(in)))

\* C22: the playlist sent has as many lines as the playlist fetched and its
\* line i is derived from line i of the fetched one; the chunks written in a
\* relay are a prefix, in order, of the chunks of the one upstream fetch.
C22_OrderPreserved ==
  /\ ManifestAnswered =>
       /\ Len(OutLines) = Len(InLines)
       /\ \A i \in DOMAIN InLines : DerivedFrom(OutLines[i], InLines[i])
  /\ Relayed =>
       /\ calls.stream = 1
       /\ Len(written) <= upstream.total
       /\ written = [i \in 1..Len(written) |-> i]

\* a playlist of two different references answered, second line after first
W22_TwoReferencesInOrder ==
  /\ ManifestAnswered
  /\ Len(InLines) = 2
  /\ IsReference(InLines[1]) /\ IsReference(InLines[2])
  /\ InLines[1] # InLines[2]
  /\ OutLines[1] # OutLines[2]
  /\ OutLines[1] # InLines[1] /\ OutLines[2] # InLines[2]

\* C24: status and headers of a response are written at most once: once the
\* headers were sent no step changes status, headers or the kind of body, and
\* an error body is only ever written when no headers were sent and no byte
\* of a relay was written.
C24_HeadersWrittenOnce ==
  [][/\ res.headersSent =>
          /\ res'.headersSent
          /\ res'.status = res.status
          /\ res'.headers = res.headers
          /\ res'.body.kind = res.body.kind
     /\ (res'.body.kind = "error" /\ res' # res) =>
          /\ ~res.headersSent
          /\ res.body = NoBody
          /\ written = << >>]_vars

\* a relay whose headers and first chunks went out before upstream failed
W24_UpstreamFailedAfterHeaders ==
  /\ res.headersSent
  /\ written # << >>
  /\ outcome = "Failed-Upstream"
  /\ res.body = StreamBody
  /\ res.status = upstream.status

\* C25: for the same target URL and the same fetched body the extension
\* branch and the content-type branch produce the same status, headers and
\* body, and the response a request got from its branch is the response the
\* other branch computes.
C25_RewritingBranchesEquivalent ==
  (content # NoContent /\ content # JsonValue) =>
    /\ ManifestResponseExt(FreshResponse, rewrittenLinesExt(content, targetUrl))
         = ManifestResponseDetected(FreshResponse, rewrittenLinesDetected(content, targetUrl))
    /\ (ManifestAnswered /\ via = "extension") =>
         res = ManifestResponseDetected(FreshResponse, rewrittenLinesDetected(content, targetUrl))
    /\ (ManifestAnswered /\ via = "probe") =>
         res = ManifestResponseExt(FreshResponse, rewrittenLinesExt(content, targetUrl))

\* a playlist classified by the probe, with a relative and an absolute line
W25_ProbedPlaylistRewritten ==
  /\ ManifestAnswered
  /\ via = "probe"
  /\ Len(InLines) = 2
  /\ InLines[1] = LineRel
  /\ InLines[2] = LineAbs
  /\ OutLines[1] # InLines[1]

C26_HeartbeatKeepsSession ==
  (stored # NoAuth /\ beat.kept) =>
    /\ stored \in DOMAIN sessions
    /\ stored \in activeSessions(sessions, now)
    /\ removeInactive(sessions, now)[stored] = sessions[stored]
    /\ sessions[stored].loginTime <= sessions[stored].lastActivity

\* the heartbeats were on time since the login, and more than five minutes
\* after the login a cleanup tick left the session in the map and in the list
W26_ReloadedAndStillListed ==
  /\ event.kind = "cleanup"
  /\ tab = "open"
  /\ auth = ClientId
  /\ beat.kept
  /\ now - sessions[ClientId].loginTime > SESSION_TIMEOUT
  /\ ClientId \in activeSessions(sessions, now)

\* C27: a heartbeat for a sessionId that is not in the map changes neither the
\* map nor the sessions file and is answered with success; a session only
\* comes into the map in a successful POST /api/session; and a session that
\* stays in the map keeps its loginTime, also through a repeated POST.
C27_HeartbeatCreatesNothing ==
  [][/\ (event'.kind = "heartbeat" /\ event'.id \notin DOMAIN sessions) =>
          /\ sessions' = sessions
          /\ sessionsFile' = sessionsFile
          /\ event'.id # NoId => event'.status = 200
     /\ DOMAIN sessions' \ DOMAIN sessions # {} =>
          /\ event'.kind = "createSession"
          /\ event'.status = 200
          /\ DOMAIN sessions' \ DOMAIN sessions = {event'.id}
     /\ \A id \in DOMAIN sessions \intersect DOMAIN sessions' :
          sessions'[id].loginTime = sessions[id].loginTime]_allvars

\* the restored client's heartbeat for its removed session was answered,
\* next to a session that was posted twice
W27_HeartbeatForRemovedSession ==
  /\ event = [kind |-> "heartbeat", id |-> ClientId, status |-> 200]
  /\ ClientId \notin DOMAIN sessions
  /\ ForeignId \in DOMAIN sessions
  /\ sessions[ForeignId].loginTime < sessions[ForeignId].lastActivity
  /\ sessionsFile = sessions

\* C28: a cleanup tick removes exactly the sessions whose last activity is
\* more than 5 minutes old; the active-session list holds only stored
\* sessions whose last activity is less than 5 minutes old; and the online
\* count of the stats is at most the total.
C28_CleanupAtTimeout ==
  [][/\ event'.kind = "cleanup" =>
          /\ DOMAIN sessions' =
               {id \in DOMAIN sessions : now - sessions[id].lastActivity <= SESSION_TIMEOUT}
          /\ \A id \in DOMAIN sessions' : sessions'[id] = sessions[id]
     /\ (event'.kind = "listSessions" /\ event'.status = 200) =>
          /\ event'.listed \subseteq DOMAIN sessions
          /\ \A id \in event'.listed : now - sessions[id].lastActivity < SESSION_TIMEOUT
     /\ (event'.kind = "stats" /\ event'.status = 200) =>
          event'.online <= event'.total]_allvars

\* a cleanup tick that removed a session 6 minutes old and kept one 5 minutes old
W28_CleanupKeptSessionAtTimeout ==
  /\ event.kind = "cleanup"
  /\ stored = ClientId
  /\ ClientId \notin DOMAIN sessions
  /\ ForeignId \in DOMAIN sessions
  /\ now - sessions[ForeignId].lastActivity = SESSION_TIMEOUT

AdminKinds == {"addServer", "deleteServer", "updateConfig", "listSessions", "stats"}

\* C29: a request to an admin route whose x-admin-password is not the
\* configured secret is answered 401 and changes neither the servers list
\* nor the app config nor the session map, and every step that changes the
\* servers list or the config is a request that carried the secret.
C29_AdminRoutesNeedSecret ==
  [][/\ (event'.kind \in AdminKinds /\ event'.password # expectedPassword) =>
          /\ event'.status = 401
          /\ servers' = servers
          /\ nextServerId' = nextServerId
          /\ appConfig' = appConfig
          /\ sessions' = sessions
     /\ (servers' # servers \/ appConfig' # appConfig) =>
          /\ event'.kind \in AdminKinds
          /\ event'.password = expectedPassword
          /\ event'.status = 200]_allvars

\* with ADMIN_PASSWORD set, a delete carrying the default password was
\* refused while a server, a changed config and a session were there
W29_DefaultPasswordRefused ==
  /\ adminEnv = "s3cret"
  /\ event = [kind |-> "deleteServer", password |-> "admin", status |-> 401]
  /\ Len(servers) = MaxServers
  /\ appConfig # DefaultConfig
  /\ DOMAIN sessions # {}

====
